---- MODULE Spec2Model ----
(***************************************************************************)
(* Model of the Angular front end: NotificationService, ApiService,        *)
(* HttpErrorInterceptor and the three feature components                   *)
(* (AtsAnalyzerComponent, ResumeGeneratorComponent,                        *)
(* ImageGenerationComponent).                                              *)
(*                                                                         *)
(* Execution is the browser's single-threaded event loop: every action is  *)
(* one handler or callback run to completion.  Time is abstract: a pending *)
(* timer (setTimeout, the retry delay, the ApiService deadline) and a      *)
(* pending HTTP response may fire in any order.                            *)
(***************************************************************************)
EXTENDS Integers, Sequences, FiniteSets, TLC

\* ------------------------------------------------------------------ bounds
MaxQueue == 3       \* show() is not called while the queue holds this many
MaxTimers == 3      \* show() is not called while this many timers are pending
MaxCalls == 2       \* submissions that reach the network in one behaviour
MaxAttempts == 3    \* HTTP attempts modelled for one submission
MaxErrorCalls == 1  \* submissions in the specification of the message table
MaxSkillLen == 3    \* characters of the skills inputs that are enumerated
MaxSkillCalls == 1  \* submissions in the specification of the skills parser
MaxEntries == 2     \* entries of an experience, responsibility or education list
MaxFlagCalls == 1   \* submissions in the specification of the loading flags
MaxIntercepted == 3 \* requests handed to LoadingInterceptor.intercept()
MaxSubscriptions == 2 \* subscriptions to one observable intercept() returned

\* ------------------------------------------------------- program constants
DefaultDuration == 5000
ErrorDuration == 7000
RetryCount == 1
RetryDelay == 1000
ResetOnSuccess == TRUE
HistoryLimit == 12

\* ------------------------------------------------------------- input sets
IdSpace == {"notif_1", "notif_2"}
Messages == {"saved", "failed"}

VARIABLES
  notifications,  \* NotificationService.notifications$.value
  timers,         \* pending setTimeout callbacks of show(): id -> count
  calls,          \* the submissions that reached ApiService.post
  ats,            \* AtsAnalyzerComponent fields
  resume,         \* ResumeGeneratorComponent fields
  image,          \* ImageGenerationComponent fields
  activeRequests, \* LoadingInterceptor.activeRequests
  handed          \* the observables intercept() of LoadingInterceptor returned

vars == <<notifications, timers, calls, ats, resume, image,
          activeRequests, handed>>
loadingVars == <<activeRequests, handed>>

\* =================================================== NotificationService

\* generateId(): `notif_${Date.now()}_${Math.random()...}`; the value is
\* not derived from the queue, so any identifier may come out.
generateId == IdSpace

\* a slip: an entry with the same type and message is not shown again
show_dedupe(current, id, type, message, duration) ==
  IF \E i \in 1..Len(current) :
        current[i].type = type /\ current[i].message = message
  THEN current
  ELSE Append(current, [id |-> id, type |-> type, message |-> message,
                        duration |-> duration])

\* show(): the list after [...current, notification]
show(current, id, type, message, duration) ==
  Append(current, [id |-> id, type |-> type, message |-> message,
                   duration |-> duration])

\* a slip: only durations above the default get a timer
schedulesTimer_aboveDefault(duration) == duration > DefaultDuration

\* show(): does it call setTimeout?
schedulesTimer(duration) == duration > 0

\* a slip: current.splice(current.findIndex(n => n.id === id), 1), which
\* removes the first match only and, with no match (index -1), the last entry
remove_splice(current, id) ==
  LET hits == {i \in 1..Len(current) : current[i].id = id}
      k == IF hits = {} THEN Len(current)
           ELSE CHOOSE i \in hits : \A j \in hits : i <= j
  IN [i \in 1..(IF current = <<>> THEN 0 ELSE Len(current) - 1) |->
        IF i < k THEN current[i] ELSE current[i + 1]]

\* remove(): current.filter(n => n.id !== id)
remove(current, id) == SelectSeq(current, LAMBDA n : n.id # id)

PendingTimers ==
  LET RECURSIVE Sum(_)
      Sum(S) == IF S = {} THEN 0
                ELSE LET x == CHOOSE y \in S : TRUE
                     IN timers[x] + Sum(S \ {x})
  IN Sum(IdSpace)

\* the state change of one show() call, shared by every caller
ShowEffect(id, type, message, duration) ==
  /\ notifications' = show(notifications, id, type, message, duration)
  /\ timers' = IF schedulesTimer(duration)
               THEN [timers EXCEPT ![id] = @ + 1]
               ELSE timers

CanShow == Len(notifications) < MaxQueue /\ PendingTimers < MaxTimers

\* NotificationService.show(type, message, duration) called directly
Show(type, message, duration) ==
  /\ CanShow
  /\ \E id \in generateId : ShowEffect(id, type, message, duration)
  /\ UNCHANGED <<loadingVars, calls, ats, resume, image>>

\* success(), warning(), info(): show(type, message) with the default
Success(message) == Show("success", message, DefaultDuration)
Warning(message) == Show("warning", message, DefaultDuration)
Info(message) == Show("info", message, DefaultDuration)
\* error(): show('error', message, 7000)
Error(message) == Show("error", message, ErrorDuration)

\* the setTimeout callback of show(): this.remove(notification.id)
TimerFire(id) ==
  /\ timers[id] > 0
  /\ timers' = [timers EXCEPT ![id] = @ - 1]
  /\ notifications' = remove(notifications, id)
  /\ UNCHANGED <<loadingVars, calls, ats, resume, image>>

\* NotificationComponent.remove(id): manual dismiss
Dismiss(id) ==
  /\ notifications' = remove(notifications, id)
  /\ UNCHANGED <<loadingVars, timers, calls, ats, resume, image>>

\* ============================================= HttpErrorInterceptor

MsgCannotConnect == "Cannot connect to server. Please check your internet connection."
MsgInvalidRequest == "Invalid request. Please check your input."
MsgUnauthorized == "Unauthorized. Please log in."
MsgForbidden == "Access forbidden."
MsgNotFound == "Resource not found."
MsgRequestTimeout == "Request timeout. Please try again."
MsgServerError == "Server error. Please try again later."
MsgUnavailable == "Service temporarily unavailable."

\* a JavaScript value that may be undefined: <<>> is undefined, <<v>> is v
Undefined == <<>>
\* a || b for an optional string a: undefined and '' are falsy
OrElse(a, b) == IF a # Undefined /\ a[1] # "" THEN a[1] ELSE b

\* a slip: the detail is returned without the `|| '<canned message>'`
getServerErrorMessage_noFallback(status, detail) ==
  CASE status = 0 -> MsgCannotConnect
    [] status = 400 -> OrElse(detail, "")
    [] status = 401 -> MsgUnauthorized
    [] status = 403 -> MsgForbidden
    [] status = 404 -> MsgNotFound
    [] status = 408 -> MsgRequestTimeout
    [] status = 500 -> OrElse(detail, "")
    [] status = 503 -> MsgUnavailable
    [] OTHER -> OrElse(detail, "Server error: " \o ToString(status))

\* a slip: the 500 case returns its canned message whatever the body says
getServerErrorMessage_cannedOnly(status, detail) ==
  CASE status = 0 -> MsgCannotConnect
    [] status = 400 -> OrElse(detail, MsgInvalidRequest)
    [] status = 401 -> MsgUnauthorized
    [] status = 403 -> MsgForbidden
    [] status = 404 -> MsgNotFound
    [] status = 408 -> MsgRequestTimeout
    [] status = 500 -> MsgServerError
    [] status = 503 -> MsgUnavailable
    [] OTHER -> OrElse(detail, "Server error: " \o ToString(status))

\* getServerErrorMessage(error): the switch on error.status
getServerErrorMessage(status, detail) ==
  CASE status = 0 -> MsgCannotConnect
    [] status = 400 -> OrElse(detail, MsgInvalidRequest)
    [] status = 401 -> MsgUnauthorized
    [] status = 403 -> MsgForbidden
    [] status = 404 -> MsgNotFound
    [] status = 408 -> MsgRequestTimeout
    [] status = 500 -> OrElse(detail, MsgServerError)
    [] status = 503 -> MsgUnavailable
    [] OTHER -> OrElse(detail, "Server error: " \o ToString(status))

\* catchError of intercept(): the message for the error that retry let
\* through.  err.event: error.error instanceof ErrorEvent.
interceptorMessage(err) ==
  IF err.event THEN "Client Error: " \o err.message
  ELSE getServerErrorMessage(err.status, err.detail)

\* retry({count: 1, delay: 1000, resetOnSuccess: true}), error callback:
\* `if (soFar++ < count)` resubscribes after the delay, else the error goes on
retryAgain(soFar) == soFar < RetryCount

\* retry(), next callback: `if (resetOnSuccess) soFar = 0`
afterValue(soFar) == IF ResetOnSuccess THEN 0 ELSE soFar

\* ======================================================== ApiService

MsgTimeoutError == "Timeout has occurred"   \* rxjs TimeoutError.message

\* a slip: the client-side branch is taken for every error
handleError_prefixed(detail, message) == "Error: " \o message

\* handleError(error): error.error?.detail || error.message || 'Server error'
\* (error.error instanceof ErrorEvent is false for the Error objects that
\* reach it: the interceptor's Error and the TimeoutError have no .error)
handleError(detail, message) == OrElse(detail, OrElse(<<message>>, "Server error"))

\* ================================================== feature components

MsgFillBoth == "Please fill both fields"
MsgFillAll == "Please fill all required fields"
MsgEnterPrompt == "Please enter a prompt"
Fallback(comp) ==
  CASE comp = "ats" -> "Analysis failed. Please try again."
    [] comp = "resume" -> "Resume generation failed. Please try again."
    [] comp = "image" -> "Generation failed. Please try again."

\* a JavaScript string is falsy when it is empty
Falsy(s) == s = ""

\* private defaultTimeout = 120000, and the timeoutMs of
\* ImageService.generateImage
DefaultTimeout == 120000
ImageTimeout == 300000

\* ApiService.post(...).subscribe(...): the timeout operator starts its
\* deadline, the interceptor subscribes to next.handle(request) and the
\* first HTTP attempt is sent
NewCall(comp, request) ==
  [comp |-> comp, method |-> "POST", request |-> request,
   timeoutMs |-> IF comp = "image" THEN ImageTimeout ELSE DefaultTimeout, phase |-> "inflight", attempts |-> 1,
   soFar |-> 0, failed |-> 0, outcome |-> "none", status |-> -1,
   clientSide |-> FALSE, detail |-> Undefined, retryTimer |-> 0,
   notified |-> 0, surfaced |-> ""]

Outstanding(c) == calls[c].phase # "done"

\* ---------------------------------------------------------- input sets
\* strings whose characters the code inspects are sequences of characters
Texts == {"", "cv"}
Styles == {"realistic", "anime"}
SkillInputs == {<<>>, <<"a">>, <<"a", ",", " ", "b">>, <<",", " ">>}
Statuses == {0, 400, 401, 403, 404, 408, 500, 503, 418}
Details == {Undefined, <<"">>, <<"Quota exceeded">>}
HttpErrors ==
  [event : {FALSE}, message : {""}, status : Statuses, detail : Details]
    \cup {[event |-> TRUE, message |-> "net down", status |-> 0,
           detail |-> Undefined]}

\* the white space characters of the inputs (trim() strips more: all of
\* ECMAScript's WhiteSpace and LineTerminator)
WhiteSpace == {" ", "\t"}

\* String.prototype.trim() on a sequence of characters
RECURSIVE TrimLeft(_)
TrimLeft(s) ==
  IF s # <<>> /\ Head(s) \in WhiteSpace THEN TrimLeft(Tail(s)) ELSE s
RECURSIVE TrimRight(_)
TrimRight(s) ==
  IF s # <<>> /\ s[Len(s)] \in WhiteSpace
  THEN TrimRight(SubSeq(s, 1, Len(s) - 1))
  ELSE s
trim(s) == TrimRight(TrimLeft(s))

\* String.prototype.split(','): always at least one piece
RECURSIVE split(_)
split(s) ==
  IF \A i \in 1..Len(s) : s[i] # "," THEN <<s>>
  ELSE LET k == CHOOSE i \in 1..Len(s) :
                  s[i] = "," /\ \A j \in 1..(i - 1) : s[j] # ","
       IN <<SubSeq(s, 1, k - 1)>> \o split(SubSeq(s, k + 1, Len(s)))

\* a slip: the pieces are filtered but not trimmed
parseSkills_noTrim(skillsInput) ==
  SelectSeq(split(skillsInput), LAMBDA piece : piece # <<>>)

\* generateResume(): skillsInput.split(',').map(s => s.trim()).filter(s => s)
parseSkills(skillsInput) ==
  LET pieces == split(skillsInput)
      trimmed == [i \in 1..Len(pieces) |-> trim(pieces[i])]
  IN SelectSeq(trimmed, LAMBDA piece : piece # <<>>)

\* onGenerate(): skillsInput.split(',').map(s => s.trim())
\*                          .filter(s => s.length > 0)
onGenerateSkills(skillsInput) ==
  LET pieces == split(skillsInput)
      trimmed == [i \in 1..Len(pieces) |-> trim(pieces[i])]
  IN SelectSeq(trimmed, LAMBDA piece : Len(piece) > 0)

\* --------------------------------------------------- AtsAnalyzerComponent

\* a slip: && in place of ||
atsInvalid_and(resumeText, jobDescription) ==
  Falsy(resumeText) /\ Falsy(jobDescription)

\* analyzeResume(): !this.resumeText || !this.jobDescription
atsInvalid(resumeText, jobDescription) ==
  Falsy(resumeText) \/ Falsy(jobDescription)

\* analyzeResume() with the two bound text fields as its inputs
AnalyzeResume(resumeText, jobDescription) ==
  /\ IF atsInvalid(resumeText, jobDescription)
     THEN /\ ats' = [ats EXCEPT !.error = MsgFillBoth]
          /\ UNCHANGED calls
     ELSE /\ Len(calls) < MaxCalls
          /\ ats' = [ats EXCEPT !.loading = TRUE, !.error = ""]
          /\ calls' = Append(calls,
                 NewCall("ats", [resume_text |-> resumeText,
                                 job_description |-> jobDescription]))
  /\ UNCHANGED <<loadingVars, notifications, timers, resume, image>>

\* ------------------------------------------------ ResumeGeneratorComponent

\* a slip: the email field is left out of the conjunction
isFormValid_noEmail(form) ==
  /\ ~Falsy(form.name)
  /\ ~Falsy(form.phone)
  /\ ~Falsy(form.target_role)
  /\ form.skillsInput # <<>>
  /\ ~Falsy(form.job_description)

\* isFormValid(): all six bound fields truthy
isFormValid(form) ==
  /\ ~Falsy(form.name)
  /\ ~Falsy(form.email)
  /\ ~Falsy(form.phone)
  /\ ~Falsy(form.target_role)
  /\ form.skillsInput # <<>>
  /\ ~Falsy(form.job_description)

ResumeForms ==
  [name : {"", "n"}, email : {"", "e"}, phone : {"", "p"},
   target_role : {"", "t"}, skillsInput : SkillInputs,
   job_description : {"", "j"}]

\* Array.prototype.splice(start, 1) with a 0-based integer start: a negative
\* start counts from the end, a start past the end removes nothing
splice(list, start) ==
  LET len == Len(list)
      from == IF start < 0
              THEN (IF len + start < 0 THEN 0 ELSE len + start)
              ELSE (IF start > len THEN len ELSE start)
  IN IF from >= len THEN list
     ELSE SubSeq(list, 1, from) \o SubSeq(list, from + 2, len)

\* a slip: the length guard is missing
removeEntry_unguarded(list, index) == splice(list, index)

\* if (list.length > 1) list.splice(index, 1)
removeEntry(list, index) ==
  IF Len(list) > 1 THEN splice(list, index) ELSE list

\* The entries of the three lists are pushed blank; tag tells them apart
\* (for a responsibility, a string, the tag stands for the entry itself).
freshTag(tags) == CHOOSE t \in 1..(Len(tags) + 1) :
                    /\ \A i \in 1..Len(tags) : tags[i] # t
                    /\ \A u \in 1..(t - 1) : \E i \in 1..Len(tags) : tags[i] = u
tagsOf(list) == [i \in 1..Len(list) |-> list[i].tag]

\* experience.push({title: '', company: '', duration: '',
\*                  responsibilities: ['']})
addExperience(experience) ==
  Append(experience, [tag |-> freshTag(tagsOf(experience)),
                      responsibilities |-> <<1>>])

\* experience[expIndex].responsibilities.push(''); an expIndex that names no
\* entry throws a TypeError and nothing changes
addResponsibility(experience, expIndex) ==
  IF expIndex \in 0..(Len(experience) - 1)
  THEN [experience EXCEPT ![expIndex + 1].responsibilities =
          Append(@, freshTag(@))]
  ELSE experience

removeResponsibility(experience, expIndex, respIndex) ==
  IF expIndex \in 0..(Len(experience) - 1)
  THEN [experience EXCEPT ![expIndex + 1].responsibilities =
          removeEntry(@, respIndex)]
  ELSE experience

\* education.push({degree: '', institution: '', year: '', gpa: ''})
addEducation(education) ==
  Append(education, [tag |-> freshTag(tagsOf(education))])

AddExperience ==
  /\ Len(resume.experience) < MaxEntries
  /\ resume' = [resume EXCEPT !.experience = addExperience(@)]
  /\ UNCHANGED <<loadingVars, notifications, timers, calls, ats, image>>

RemoveExperience(index) ==
  /\ resume' = [resume EXCEPT !.experience = removeEntry(@, index)]
  /\ UNCHANGED <<loadingVars, notifications, timers, calls, ats, image>>

AddResponsibility(expIndex) ==
  /\ expIndex \in 0..(Len(resume.experience) - 1)
        => Len(resume.experience[expIndex + 1].responsibilities) < MaxEntries
  /\ resume' = [resume EXCEPT !.experience = addResponsibility(@, expIndex)]
  /\ UNCHANGED <<loadingVars, notifications, timers, calls, ats, image>>

RemoveResponsibility(expIndex, respIndex) ==
  /\ resume' = [resume EXCEPT
        !.experience = removeResponsibility(@, expIndex, respIndex)]
  /\ UNCHANGED <<loadingVars, notifications, timers, calls, ats, image>>

AddEducation ==
  /\ Len(resume.education) < MaxEntries
  /\ resume' = [resume EXCEPT !.education = addEducation(@)]
  /\ UNCHANGED <<loadingVars, notifications, timers, calls, ats, image>>

RemoveEducation(index) ==
  /\ resume' = [resume EXCEPT !.education = removeEntry(@, index)]
  /\ UNCHANGED <<loadingVars, notifications, timers, calls, ats, image>>

\* generateResume() with the bound form fields as its inputs; the record
\* keeps, next to resumeData.skills, the skillsInput they were parsed from
GenerateResume(form) ==
  /\ IF ~isFormValid(form)
     THEN /\ resume' = [resume EXCEPT !.error = MsgFillAll]
          /\ UNCHANGED calls
     ELSE /\ Len(calls) < MaxCalls
          /\ resume' = [resume EXCEPT !.loading = TRUE, !.error = "",
                                      !.skillsInput = form.skillsInput,
                                      !.skills = parseSkills(form.skillsInput)]
          /\ calls' = Append(calls,
                 NewCall("resume", [name |-> form.name,
                                    skills |-> parseSkills(form.skillsInput)]))
  /\ UNCHANGED <<loadingVars, notifications, timers, ats, image>>

\* ----------------------------------------------------- ResumeFormComponent
\* Its resumeData is an @Input: the ResumeRequest object of the component
\* that hosts the form, here the resumeData of ResumeGeneratorComponent.

\* onGenerate() with the form's own skillsInput as its input; the emitted
\* generateResume event carries no data
\* the list methods of the form: those of ResumeGeneratorComponent, each
\* followed by emitChange() when it changed something
FormAddExperience ==
  /\ Len(resume.experience) < MaxEntries
  /\ resume' = [resume EXCEPT !.experience = addExperience(@)]
  /\ UNCHANGED <<loadingVars, notifications, timers, calls, ats, image>>

FormRemoveExperience(index) ==
  /\ resume' = [resume EXCEPT !.experience = removeEntry(@, index)]
  /\ UNCHANGED <<loadingVars, notifications, timers, calls, ats, image>>

FormAddResponsibility(expIndex) ==
  /\ expIndex \in 0..(Len(resume.experience) - 1)
        => Len(resume.experience[expIndex + 1].responsibilities) < MaxEntries
  /\ resume' = [resume EXCEPT !.experience = addResponsibility(@, expIndex)]
  /\ UNCHANGED <<loadingVars, notifications, timers, calls, ats, image>>

FormRemoveResponsibility(expIndex, respIndex) ==
  /\ resume' = [resume EXCEPT
        !.experience = removeResponsibility(@, expIndex, respIndex)]
  /\ UNCHANGED <<loadingVars, notifications, timers, calls, ats, image>>

FormAddEducation ==
  /\ Len(resume.education) < MaxEntries
  /\ resume' = [resume EXCEPT !.education = addEducation(@)]
  /\ UNCHANGED <<loadingVars, notifications, timers, calls, ats, image>>

FormRemoveEducation(index) ==
  /\ resume' = [resume EXCEPT !.education = removeEntry(@, index)]
  /\ UNCHANGED <<loadingVars, notifications, timers, calls, ats, image>>

OnGenerate(skillsInput) ==
  /\ resume' = [resume EXCEPT !.skillsInput = skillsInput,
                              !.skills = onGenerateSkills(skillsInput)]
  /\ resume' # resume
  /\ UNCHANGED <<loadingVars, notifications, timers, calls, ats, image>>

\* ------------------------------------------------ ImageGenerationComponent

\* the prompt box and the style picker (two-way bindings)
SetPrompt(p) ==
  /\ image.prompt # p
  /\ image' = [image EXCEPT !.prompt = p]
  /\ UNCHANGED <<loadingVars, notifications, timers, calls, ats, resume>>

SelectStyle(st) ==
  /\ image.selectedStyle # st
  /\ image' = [image EXCEPT !.selectedStyle = st]
  /\ UNCHANGED <<loadingVars, notifications, timers, calls, ats, resume>>

\* generateImage(): !this.prompt.trim()
imageInvalid(prompt) == trim(prompt) = <<>>

GenerateImage ==
  /\ IF imageInvalid(image.prompt)
     THEN /\ image' = [image EXCEPT !.error = MsgEnterPrompt]
          /\ UNCHANGED calls
     ELSE /\ Len(calls) < MaxCalls
          /\ image' = [image EXCEPT !.loading = TRUE, !.error = ""]
          /\ calls' = Append(calls,
                 NewCall("image", [prompt |-> image.prompt,
                                   style |-> image.selectedStyle]))
  /\ UNCHANGED <<loadingVars, notifications, timers, ats, resume>>

\* a slip: the bound is enforced with shift(), dropping the newest entry
unshiftBounded_shift(history, entry) ==
  LET grown == <<entry>> \o history
  IN IF Len(grown) > HistoryLimit THEN Tail(grown) ELSE grown

\* next handler of generateImage(): history.unshift(response);
\* if (history.length > 12) history.pop()
unshiftBounded(history, entry) ==
  LET grown == <<entry>> \o history
  IN IF Len(grown) > HistoryLimit THEN SubSeq(grown, 1, Len(grown) - 1)
     ELSE grown

\* loadFromHistory(item)
LoadFromHistory(i) ==
  /\ i \in 1..Len(image.history)
  /\ image' = [image EXCEPT !.prompt = image.history[i].prompt,
                            !.selectedStyle = image.history[i].style,
                            !.generatedImage = image.history[i]]
  /\ image' # image
  /\ UNCHANGED <<loadingVars, notifications, timers, calls, ats, resume>>

NoImage == [image_url |-> 0, prompt |-> <<>>, style |-> ""]

\* ------------------------------------------------ the subscribe callbacks

\* next: (response) => {...} of the component that made call c; the
\* response body is identified by the call it answers
onNext(c) ==
  LET comp == calls[c].comp IN
  /\ ats' = IF comp = "ats"
            THEN [ats EXCEPT !.result = c, !.loading = FALSE] ELSE ats
  /\ resume' = IF comp = "resume"
               THEN [resume EXCEPT !.result = c, !.loading = FALSE]
               ELSE resume
  /\ image' = IF comp = "image"
              THEN LET response == [image_url |-> c,
                                    prompt |-> image.prompt,
                                    style |-> image.selectedStyle]
                   IN [image EXCEPT
                         !.generatedImage = response,
                         !.history = unshiftBounded(image.history, response),
                         !.loading = FALSE]
              ELSE image

\* this.error = err.message || '<fallback>'
inlineError(comp, message) == OrElse(<<message>>, Fallback(comp))

\* a slip: the error callback stores the message and leaves loading set
onError_keepsLoading(c, message) ==
  LET comp == calls[c].comp IN
  /\ ats' = IF comp = "ats"
            THEN [ats EXCEPT !.error = inlineError(comp, message)] ELSE ats
  /\ resume' = IF comp = "resume"
               THEN [resume EXCEPT !.error = inlineError(comp, message)]
               ELSE resume
  /\ image' = IF comp = "image"
              THEN [image EXCEPT !.error = inlineError(comp, message)]
              ELSE image

\* error: (err) => {...} of the component that made call c
onError(c, message) ==
  LET comp == calls[c].comp IN
  /\ ats' = IF comp = "ats"
            THEN [ats EXCEPT !.error = inlineError(comp, message),
                             !.loading = FALSE]
            ELSE ats
  /\ resume' = IF comp = "resume"
               THEN [resume EXCEPT !.error = inlineError(comp, message),
                                   !.loading = FALSE]
               ELSE resume
  /\ image' = IF comp = "image"
              THEN [image EXCEPT !.error = inlineError(comp, message),
                                 !.loading = FALSE]
              ELSE image

\* ------------------------------------------- one call through the pipeline
\* ApiService.post: http.post(...) -> [HttpErrorInterceptor: next.handle,
\* retry, catchError] -> timeout -> catchError(handleError) -> subscriber.
\*
\* next.handle(request) is Angular's handler chain down to the HttpBackend.
\* Its XHR and fetch backends emit an HttpSentEvent on every subscription,
\* before any response or error; a handler that fails before sending emits
\* nothing.  Both kinds of handler are modelled (sent \in BOOLEAN).

\* the HTTP response arrives with a 2xx status
RespondOk(c) ==
  /\ c \in 1..Len(calls)
  /\ calls[c].phase = "inflight"
  /\ calls' = [calls EXCEPT ![c].phase = "done", ![c].outcome = "ok",
                            ![c].soFar = afterValue(@)]
  /\ onNext(c)
  /\ UNCHANGED <<loadingVars, notifications, timers>>

\* a slip: catchError sits before retry in the pipe, so every failed attempt
\* is reported, also the one that is retried
RespondError_notifyEachFailure(c, err) ==
  /\ c \in 1..Len(calls)
  /\ calls[c].phase = "inflight"
  /\ UNCHANGED loadingVars
  /\ LET message == interceptorMessage(err)
         thrown == handleError(Undefined, message)
     IN /\ CanShow
        /\ \E id \in generateId :
              ShowEffect(id, "error", message, ErrorDuration)
        /\ IF retryAgain(calls[c].soFar)
           THEN /\ calls' = [calls EXCEPT ![c].phase = "delay",
                                          ![c].retryTimer = RetryDelay,
                                          ![c].soFar = @ + 1,
                                          ![c].failed = @ + 1,
                                          ![c].notified = @ + 1]
                /\ UNCHANGED <<ats, resume, image>>
           ELSE /\ calls' = [calls EXCEPT
                      ![c].phase = "done", ![c].outcome = "error",
                      ![c].soFar = @ + 1, ![c].failed = @ + 1,
                      ![c].status = err.status, ![c].clientSide = err.event,
                      ![c].detail = err.detail,
                      ![c].notified = @ + 1,
                      ![c].surfaced = inlineError(calls[c].comp, thrown)]
                /\ onError(c, thrown)

\* the HTTP attempt fails: retry's error callback, and when retry gives up
\* the interceptor's catchError, ApiService.handleError and the component's
\* error callback, all in the same turn
RespondError(c, err) ==
  /\ c \in 1..Len(calls)
  /\ calls[c].phase = "inflight"
  /\ UNCHANGED loadingVars
  /\ IF retryAgain(calls[c].soFar)
     THEN /\ calls' = [calls EXCEPT ![c].phase = "delay",
                                    ![c].retryTimer = RetryDelay,
                                    ![c].soFar = @ + 1,
                                    ![c].failed = @ + 1]
          /\ UNCHANGED <<notifications, timers, ats, resume, image>>
     ELSE LET message == interceptorMessage(err)
              thrown == handleError(Undefined, message)
          IN /\ CanShow
             /\ \E id \in generateId :
                   ShowEffect(id, "error", message, ErrorDuration)
             /\ calls' = [calls EXCEPT
                   ![c].phase = "done", ![c].outcome = "error",
                   ![c].soFar = @ + 1, ![c].failed = @ + 1,
                   ![c].status = err.status, ![c].clientSide = err.event,
                   ![c].detail = err.detail,
                   ![c].notified = @ + 1,
                   ![c].surfaced = inlineError(calls[c].comp, thrown)]
             /\ onError(c, thrown)

\* timer(1000) of retry fires: resubscribe to next.handle(request), which
\* sends the request again
RetryDelayElapsed(c) ==
  /\ c \in 1..Len(calls)
  /\ calls[c].phase = "delay"
  /\ calls[c].attempts < MaxAttempts
  /\ \E sent \in BOOLEAN :
        calls' = [calls EXCEPT
           ![c].phase = "inflight", ![c].attempts = @ + 1,
           ![c].retryTimer = 0,
           ![c].soFar = IF sent THEN afterValue(@) ELSE @]
  /\ UNCHANGED <<loadingVars, notifications, timers, ats, resume, image>>

\* timeout(timeoutMs || defaultTimeout) of ApiService.post fires: it
\* unsubscribes from the interceptor chain (a pending retry timer is
\* cancelled, catchError of the interceptor never runs) and errors with a
\* TimeoutError, which handleError turns into the component's error
Deadline(c) ==
  /\ c \in 1..Len(calls)
  /\ Outstanding(c)
  /\ LET thrown == handleError(Undefined, MsgTimeoutError)
     IN /\ calls' = [calls EXCEPT
              ![c].phase = "done", ![c].outcome = "timeout",
              ![c].retryTimer = 0,
              ![c].surfaced = inlineError(calls[c].comp, thrown)]
        /\ onError(c, thrown)
  /\ UNCHANGED <<loadingVars, notifications, timers>>

\* --------------------------------------------------- LoadingInterceptor
\* intercept() counts at the call and hands back next.handle(request) piped
\* through finalize(); whoever holds that observable (the next interceptor
\* outwards, its retry, HttpClient) subscribes to it, and each subscription
\* ends by completing, failing or being unsubscribed.

\* intercept(request, next): this.activeRequests++
Intercept ==
  /\ Len(handed) < MaxIntercepted
  /\ activeRequests' = activeRequests + 1
  /\ handed' = Append(handed, [subscriptions |-> 0, live |-> 0])
  /\ UNCHANGED <<notifications, timers, calls, ats, resume, image>>

\* a subscription to the returned observable: the request is sent; the
\* subscribers of this program (HttpClient, the retry of the error
\* interceptor) subscribe again only after their subscription has ended
Subscribe(r) ==
  /\ r \in 1..Len(handed)
  /\ handed[r].subscriptions < MaxSubscriptions
  /\ handed[r].live = 0
  /\ handed' = [handed EXCEPT ![r].subscriptions = @ + 1, ![r].live = @ + 1]
  /\ UNCHANGED <<notifications, timers, calls, ats, resume, image,
                 activeRequests>>

\* finalize(() => { this.activeRequests--; }): runs when a subscription ends
Finalize(r) ==
  /\ r \in 1..Len(handed)
  /\ handed[r].live > 0
  /\ activeRequests' = activeRequests - 1
  /\ handed' = [handed EXCEPT ![r].live = @ - 1]
  /\ UNCHANGED <<notifications, timers, calls, ats, resume, image>>

InitNotifications ==
  /\ notifications = <<>>
  /\ timers = [id \in IdSpace |-> 0]

InitForms ==
  /\ calls = <<>>
  /\ ats = [loading |-> FALSE, error |-> "", result |-> 0]
  /\ resume = [skills |-> <<>>, skillsInput |-> <<>>,
               experience |-> <<[tag |-> 1, responsibilities |-> <<1>>]>>,
               education |-> <<[tag |-> 1]>>,
               loading |-> FALSE, error |-> "", result |-> 0]

InitComponents ==
  /\ InitForms
  /\ image = [prompt |-> <<>>, selectedStyle |-> "realistic",
              loading |-> FALSE, error |-> "", generatedImage |-> NoImage,
              history |-> <<>>]

\* private activeRequests = 0
InitLoading ==
  /\ activeRequests = 0
  /\ handed = <<>>

Init == InitNotifications /\ InitComponents /\ InitLoading

\* the errors used where the message table is not what is examined
BasicErrors == {e \in HttpErrors : e.event \/ (e.status = 500 /\ e.detail = Undefined)}
BasicPrompts == {<<>>, <<" ">>, <<"c">>}
BasicForms ==
  {f \in ResumeForms : /\ f.email = "e" /\ f.phone = "p"
                       /\ f.target_role = "t" /\ f.job_description = "j"
                       /\ Len(f.skillsInput) \in {0, 4}}

NextCalls ==
  \/ \E c \in 1..MaxCalls : RespondOk(c)
  \/ \E c \in 1..MaxCalls, err \in BasicErrors : RespondError(c, err)
  \/ \E c \in 1..MaxCalls : RetryDelayElapsed(c)
  \/ \E c \in 1..MaxCalls : Deadline(c)

Next ==
  \/ \E rt \in Texts, jd \in Texts : AnalyzeResume(rt, jd)
  \/ \E form \in BasicForms : GenerateResume(form)
  \/ \E p \in BasicPrompts : SetPrompt(p)
  \/ GenerateImage
  \/ NextCalls
  \/ \E id \in IdSpace : TimerFire(id)
  \/ \E id \in IdSpace : Dismiss(id)

Spec == Init /\ [][Next]_vars

NextNotif ==
  \/ \E m \in Messages : Success(m)
  \/ \E m \in Messages : Error(m)
  \/ \E m \in Messages : Warning(m)
  \/ \E m \in Messages : Info(m)
  \/ \E m \in Messages : Show("info", m, 0)
  \/ \E id \in IdSpace : TimerFire(id)
  \/ \E id \in IdSpace : Dismiss(id)

SpecNotif == Init /\ [][NextNotif]_vars

\* the event loop runs every pending setTimeout callback
FairSpecNotif == SpecNotif /\ \A id \in IdSpace : WF_vars(TimerFire(id))

\* ------------------------------------------- the ATS analyzer on its own
NextAts ==
  \/ \E rt \in Texts, jd \in Texts : AnalyzeResume(rt, jd)
  \/ NextCalls
  \/ \E id \in IdSpace : TimerFire(id)
  \/ \E id \in IdSpace : Dismiss(id)

SpecAts == Init /\ [][NextAts]_vars

\* ------------------- the ATS analyzer against every error of HttpErrors
NextErrors ==
  \/ /\ Len(calls) < MaxErrorCalls
     /\ \E rt \in Texts, jd \in Texts : AnalyzeResume(rt, jd)
  \/ \E c \in 1..MaxCalls : RespondOk(c)
  \/ \E c \in 1..MaxCalls, err \in HttpErrors : RespondError(c, err)
  \/ \E c \in 1..MaxCalls : RetryDelayElapsed(c)
  \/ \E c \in 1..MaxCalls : Deadline(c)
  \/ \E id \in IdSpace : TimerFire(id)
  \/ \E id \in IdSpace : Dismiss(id)

SpecErrors == Init /\ [][NextErrors]_vars

\* ------------------------------------------ the image generator on its own
\* The history after earlier successful generations: entry i answers the
\* i-th most recent of them.  A call here ends with its response or with
\* the deadline; the retry steps, which do not touch the component, are
\* left to Spec.
OldEntry(i) == [image_url |-> 0 - i, prompt |-> <<"c">>, style |-> "realistic"]

InitImage ==
  /\ InitNotifications
  /\ InitForms
  /\ InitLoading
  /\ \E h \in {0, HistoryLimit - 1, HistoryLimit} :
        image = [prompt |-> <<>>, selectedStyle |-> "realistic",
                 loading |-> FALSE, error |-> "",
                 generatedImage |-> IF h = 0 THEN NoImage ELSE OldEntry(1),
                 history |-> [i \in 1..h |-> OldEntry(i)]]

NextImage ==
  \/ \E p \in BasicPrompts : SetPrompt(p)
  \/ \E st \in Styles : SelectStyle(st)
  \/ GenerateImage
  \/ \E i \in {1, HistoryLimit} : LoadFromHistory(i)
  \/ \E c \in 1..MaxCalls : RespondOk(c)
  \/ \E c \in 1..MaxCalls : Deadline(c)

SpecImage == InitImage /\ [][NextImage]_vars

\* ---------------------- the two validated forms: resume and image prompt
\* (every combination of empty and filled required fields; calls end in a
\* response or at the deadline)

Prompts == {<<>>, <<"\t", " ">>, <<" ", "c">>}
FormInputs == {f \in ResumeForms : Len(f.skillsInput) \in {0, 1}}

NextForms ==
  \/ \E form \in FormInputs : GenerateResume(form)
  \/ \E p \in Prompts : SetPrompt(p)
  \/ GenerateImage
  \/ \E c \in 1..MaxCalls : RespondOk(c)
  \/ \E c \in 1..MaxCalls : Deadline(c)

SpecForms == Init /\ [][NextForms]_vars

\* ----------------------------------------- the skills parser on its inputs
\* every skills input of up to MaxSkillLen characters over a letter, the
\* comma and the blank, and a few longer ones with tabs

SkillChars == {"a", ",", " "}
SkillStrings ==
  UNION {[1..k -> SkillChars] : k \in 0..MaxSkillLen}
    \cup SkillInputs
    \cup {<<"\t", "a", "\t", ",", ",", "b", " ", ",", "c", "\t">>}
SkillForms ==
  [name : {"n"}, email : {"e"}, phone : {"p"}, target_role : {"t"},
   skillsInput : SkillStrings, job_description : {"j"}]

NextSkills ==
  \/ \E form \in SkillForms :
        Len(calls) < MaxSkillCalls /\ GenerateResume(form)
  \/ \E input \in SkillStrings : OnGenerate(input)

SpecSkills == Init /\ [][NextSkills]_vars

\* ------------------------------------------- the list editors of the form
\* 0-based indices from one below the first entry up to the last entry of a
\* full list: negative, valid and, for a shorter list, past its end

Indices == (0 - 1)..(MaxEntries - 1)

NextLists ==
  \/ AddExperience
  \/ \E i \in Indices : RemoveExperience(i)
  \/ \E e \in Indices : AddResponsibility(e)
  \/ \E e \in Indices, r \in Indices : RemoveResponsibility(e, r)
  \/ AddEducation
  \/ \E i \in Indices : RemoveEducation(i)
  \/ FormAddExperience
  \/ \E i \in Indices : FormRemoveExperience(i)
  \/ \E e \in Indices : FormAddResponsibility(e)
  \/ \E e \in Indices, r \in Indices : FormRemoveResponsibility(e, r)
  \/ FormAddEducation
  \/ \E i \in Indices : FormRemoveEducation(i)

SpecLists == Init /\ [][NextLists]_vars

\* ------------------------------- the loading flags of the three components
\* one valid submission per component kind, any number of times; the timer
\* of timeout() is a setTimeout callback, which the event loop runs unless
\* the call ended first

NextFlags ==
  \/ Len(calls) < MaxFlagCalls /\ AnalyzeResume("cv", "cv")
  \/ \E form \in BasicForms :
        Len(calls) < MaxFlagCalls /\ GenerateResume(form)
  \/ SetPrompt(<<"c">>)
  \/ Len(calls) < MaxFlagCalls /\ GenerateImage
  \/ NextCalls

SpecFlags == Init /\ [][NextFlags]_vars

FairSpecFlags == SpecFlags /\ \A c \in 1..MaxCalls : WF_vars(Deadline(c))

\* ------------------------------------------- LoadingInterceptor on its own
NextLoading ==
  \/ Intercept
  \/ \E r \in 1..MaxIntercepted : Subscribe(r)
  \/ \E r \in 1..MaxIntercepted : Finalize(r)

SpecLoading == Init /\ [][NextLoading]_vars

\* ==================================================================
\* Properties
\* ==================================================================

CallIds == 1..Len(calls)
Finished(c) == calls[c].phase = "done"

\* C1 (as claimed): a submission that reached the network and ended with a
\* response or an HTTP error was attempted once if its first attempt
\* succeeded and exactly twice if its first attempt failed, and no
\* submission is ever attempted a third time.
C1_AtMostOneRetry ==
  \A c \in CallIds :
    /\ calls[c].attempts <= 2
    /\ (Finished(c) /\ calls[c].outcome = "ok" /\ calls[c].failed = 0)
          => calls[c].attempts = 1
    /\ (Finished(c) /\ calls[c].outcome # "timeout" /\ calls[c].failed > 0)
          => calls[c].attempts = 2

\* the canned message of each status of the table
C2_Statuses == {0, 400, 401, 403, 404, 408, 500, 503}
C2_Canned(status) ==
  CASE status = 0 -> "Cannot connect to server. Please check your internet connection."
    [] status = 400 -> "Invalid request. Please check your input."
    [] status = 401 -> "Unauthorized. Please log in."
    [] status = 403 -> "Access forbidden."
    [] status = 404 -> "Resource not found."
    [] status = 408 -> "Request timeout. Please try again."
    [] status = 500 -> "Server error. Please try again later."
    [] status = 503 -> "Service temporarily unavailable."

C2_FailsNow(c) ==
  /\ ~Finished(c)
  /\ calls'[c].phase = "done"
  /\ calls'[c].outcome = "error"

C3_HistoryBounded ==
  /\ [](Len(image.history) <= 12)
  /\ [][\A c \in CallIds :
          (~Finished(c) /\ calls'[c].outcome = "ok" /\ calls[c].comp = "image")
          => LET old == image.history
                 new == image'.history
             IN /\ Len(new) = IF Len(old) = 12 THEN 12 ELSE Len(old) + 1
                /\ new[1].image_url = c
                /\ \A i \in 2..Len(new) : new[i] = old[i - 1]
     ]_vars
  /\ [][(image'.history # image.history)
          => \E c \in CallIds : ~Finished(c) /\ calls'[c].outcome = "ok"]_vars

\* C3 witness: a response was inserted into a full history; the entry that
\* was at index 11 is gone and the one that was at index 10 is now last
C3_Witness ==
  /\ Len(image.history) = 12
  /\ image.history[1].image_url > 0
  /\ image.history[12] = OldEntry(11)
  /\ \A i \in 1..12 : image.history[i] # OldEntry(12)

Ids(q) == {q[i].id : i \in 1..Len(q)}

\* C4: remove(id) is idempotent: on a queue with no notification of that id
\* it returns the queue unchanged, applying it twice gives what applying it
\* once gives, and a dismiss or a timer callback for an absent id leaves the
\* queue as it was.
C4_RemoveIdempotent ==
  /\ [](\A id \in IdSpace :
          /\ id \notin Ids(notifications)
               => remove(notifications, id) = notifications
          /\ remove(remove(notifications, id), id) = remove(notifications, id)
          /\ id \notin Ids(remove(notifications, id)))
  /\ [][\A id \in IdSpace :
          ((Dismiss(id) \/ TimerFire(id)) /\ id \notin Ids(notifications))
             => notifications' = notifications]_vars

\* C4 witness: the timer of a notification that was already dismissed is
\* still pending while other notifications are queued
C4_Witness ==
  \E id \in IdSpace :
    /\ timers[id] > 0
    /\ id \notin Ids(notifications)
    /\ Len(notifications) >= 2

\* C5: analyzeResume with resumeText or jobDescription empty sets the inline
\* error to the validation message, makes no call, and leaves loading and
\* result as they were.
C5_AtsValidationShortCircuits ==
  [][\A rt \in Texts, jd \in Texts :
        ((rt = "" \/ jd = "") /\ AnalyzeResume(rt, jd))
           => /\ ats'.error = "Please fill both fields"
              /\ calls' = calls
              /\ ats'.loading = ats.loading
              /\ ats'.result = ats.result]_vars

\* C5 witness: the validation message is shown while an earlier call is
\* outstanding (loading still true) and an earlier result is still displayed
C5_Witness ==
  /\ ats.error = "Please fill both fields"
  /\ ats.loading
  /\ ats.result # 0
  /\ \E c \in CallIds : ~Finished(c)

\* C6 (as claimed): an ATS call ended by the ApiService deadline had been
\* retried once, and what the component got is the timeout-class message.
C6_TimeoutRetriedAndClassified ==
  \A c \in CallIds :
    (calls[c].comp = "ats" /\ calls[c].outcome = "timeout")
       => /\ calls[c].attempts = 2
          /\ calls[c].surfaced = "Request timeout. Please try again."

Loading(comp) ==
  CASE comp = "ats" -> ats.loading
    [] comp = "resume" -> resume.loading
    [] comp = "image" -> image.loading

\* C7 (as claimed): while a call of a component is outstanding, the
\* component's loading flag is true.
C7_LoadingWhileOutstanding ==
  \A c \in CallIds : ~Finished(c) => Loading(calls[c].comp)

\* C8: the queue changes only by append and by remove-by-id.  A show() adds
\* exactly one entry, with the given type, message and duration, at the end
\* and leaves the others as they were, also when an entry with the same type
\* and message is already queued; a remove(id) deletes the entries with that
\* id and keeps the others in their order.
C8_Kept(q, id) == {i \in 1..Len(q) : q[i].id # id}
C8_Rank(q, id, i) == Cardinality({k \in C8_Kept(q, id) : k <= i})
C8_IsRemoval(q, r, id) ==
  /\ Len(r) = Cardinality(C8_Kept(q, id))
  /\ \A i \in C8_Kept(q, id) : r[C8_Rank(q, id, i)] = q[i]
C8_IsAppend(q, r, type, message, duration) ==
  /\ Len(r) = Len(q) + 1
  /\ SubSeq(r, 1, Len(q)) = q
  /\ r[Len(r)].type = type
  /\ r[Len(r)].message = message
  /\ r[Len(r)].duration = duration

C8_AppendAndRemoveOnly ==
  [][/\ \A m \in Messages :
          /\ Success(m) => C8_IsAppend(notifications, notifications', "success", m, 5000)
          /\ Warning(m) => C8_IsAppend(notifications, notifications', "warning", m, 5000)
          /\ Info(m) => C8_IsAppend(notifications, notifications', "info", m, 5000)
          /\ Error(m) => C8_IsAppend(notifications, notifications', "error", m, 7000)
          /\ Show("info", m, 0) => C8_IsAppend(notifications, notifications', "info", m, 0)
     /\ \A id \in IdSpace :
          (Dismiss(id) \/ TimerFire(id))
             => C8_IsRemoval(notifications, notifications', id)
     /\ \/ \E id \in IdSpace : C8_IsRemoval(notifications, notifications', id)
        \/ /\ Len(notifications') = Len(notifications) + 1
           /\ SubSeq(notifications', 1, Len(notifications)) = notifications
    ]_vars

\* C8 witness: two queued entries have the same type and message, with a
\* different entry between them
C8_Witness ==
  /\ Len(notifications) = 3
  /\ notifications[1].type = notifications[3].type
  /\ notifications[1].message = notifications[3].message
  /\ notifications[2].message # notifications[1].message

\* C9: a queued notification with a duration above 0 is eventually not in
\* the queue (its timer fires, whether or not it was dismissed before), and
\* a notification with duration 0 stays queued through every step that is
\* not a remove of its id.
C9_Timed(id) ==
  \E i \in 1..Len(notifications) :
     notifications[i].id = id /\ notifications[i].duration > 0
C9_TimedOutOrSticky ==
  /\ \A id \in IdSpace : C9_Timed(id) ~> (id \notin Ids(notifications))
  /\ [][\A i \in 1..Len(notifications) :
          (/\ notifications[i].duration = 0
           /\ ~Dismiss(notifications[i].id)
           /\ ~TimerFire(notifications[i].id))
          => \E j \in 1..Len(notifications') :
                notifications'[j] = notifications[i]]_vars

\* C9 witness: a timed notification whose timer is pending is queued ahead
\* of a notification with duration 0
C9_Witness ==
  \E i, j \in 1..Len(notifications) :
    /\ i < j
    /\ notifications[i].duration > 0
    /\ timers[notifications[i].id] > 0
    /\ notifications[j].duration = 0
    /\ notifications[j].id # notifications[i].id

\* C10 (as claimed): a call that ended in failure (HTTP error or deadline)
\* has put a notification in the queue and a non-empty inline error on its
\* component.
C10_FailureNotifiedAndInline ==
  \A c \in CallIds :
    (Finished(c) /\ calls[c].outcome \in {"error", "timeout"})
       => /\ calls[c].notified = 1
          /\ calls[c].surfaced # ""

C11_HasDetail(c) == calls[c].detail # Undefined /\ calls[c].detail[1] # ""
C11_FailedResponse(c) == calls[c].outcome = "error" /\ ~calls[c].clientSide

C11_FixedStatuses == {0, 401, 403, 404, 408, 503}
C12_ResumeMissing(form) ==
  \/ \E f \in {"name", "email", "phone", "target_role", "job_description"} :
        form[f] = ""
  \/ Len(form.skillsInput) = 0
\* the prompt is empty or consists of white space only
C12_PromptMissing(prompt) == \A i \in 1..Len(prompt) : prompt[i] \in WhiteSpace
C12_ResumeRejected ==
  \E form \in FormInputs : C12_ResumeMissing(form) /\ GenerateResume(form)
C12_ImageRejected == C12_PromptMissing(image.prompt) /\ GenerateImage

\* C12 (as claimed): a submission with a missing required field sets the
\* inline error, makes no call, leaves loading false and leaves the previous
\* result (and, for images, the history) unchanged.
C12_RejectedLeavesLoadingFalse ==
  [][ /\ C12_ResumeRejected =>
           /\ resume'.error = MsgFillAll
           /\ calls' = calls
           /\ resume'.loading = FALSE
           /\ resume'.result = resume.result
      /\ C12_ImageRejected =>
           /\ image'.error = MsgEnterPrompt
           /\ calls' = calls
           /\ image'.loading = FALSE
           /\ image'.generatedImage = image.generatedImage
           /\ image'.history = image.history ]_vars

\* C12 (amended): a submission with a missing required field sets the inline
\* error, makes no call, and leaves loading, the previous result and the
\* history as they were; loading is false afterwards exactly when it was
\* false before (no earlier call of the component was still loading).
C12_RejectedChangesOnlyError ==
  [][ /\ C12_ResumeRejected =>
           /\ resume' = [resume EXCEPT !.error = MsgFillAll]
           /\ calls' = calls
           /\ UNCHANGED <<notifications, timers, ats, image>>
      /\ C12_ImageRejected =>
           /\ image' = [image EXCEPT !.error = MsgEnterPrompt]
           /\ calls' = calls
           /\ UNCHANGED <<notifications, timers, ats, resume>> ]_vars

\* C12 witness: both forms were rejected after an earlier result, with
\* the result and the history still in place
C12_Witness ==
  /\ resume.error = MsgFillAll /\ resume.result # 0 /\ ~resume.loading
  /\ image.error = MsgEnterPrompt /\ Len(image.history) > 0
  /\ image.generatedImage # NoImage

\* C13 (as claimed): a POST, PUT or DELETE request is attempted exactly once;
\* the interceptor never sends it again after a failure.
C13_PostNeverResent ==
  \A c \in CallIds :
    calls[c].method \in {"POST", "PUT", "DELETE"} => calls[c].attempts = 1

\* what a component shows of its call: loading flag, inline error, result
C14_View(comp) ==
  CASE comp = "ats" -> [loading |-> ats.loading, error |-> ats.error,
                        result |-> ats.result]
    [] comp = "resume" -> [loading |-> resume.loading, error |-> resume.error,
                           result |-> resume.result]
    [] OTHER -> [loading |-> image.loading, error |-> image.error,
                 result |-> image.generatedImage.image_url]

\* C14: when an attempt of a request fails and is retried, and the retry
\* succeeds, neither step enqueues a notification or touches the inline
\* error; the success step gives the component the response (result set,
\* loading false) and the request has no notification at all.
C14_RetriedThenSucceeds ==
  [][ \A c \in CallIds :
        /\ (calls[c].phase = "inflight" /\ calls'[c].phase = "delay")
              => /\ notifications' = notifications
                 /\ calls'[c].notified = 0
                 /\ C14_View(calls[c].comp)' = C14_View(calls[c].comp)
        /\ (calls[c].failed >= 1 /\ calls[c].phase = "inflight"
              /\ calls'[c].outcome = "ok")
              => /\ notifications' = notifications
                 /\ calls'[c].notified = 0
                 /\ C14_View(calls[c].comp)' =
                      [loading |-> FALSE,
                       error |-> C14_View(calls[c].comp).error,
                       result |-> c] ]_vars

\* C14 witness: the first attempt failed, the second succeeded, nothing was
\* notified and the component shows the result with an empty inline error
C14_Witness ==
  \E c \in CallIds :
    /\ calls[c].outcome = "ok" /\ calls[c].failed = 1
    /\ calls[c].attempts = 2 /\ calls[c].notified = 0
    /\ notifications = <<>>
    /\ C14_View(calls[c].comp) = [loading |-> FALSE, error |-> "", result |-> c]

\* C15 (as claimed): every history entry produced by a generateImage call
\* carries the prompt and the style that were sent in that call's request.
C15_HistoryKeepsRequest ==
  \A i \in 1..Len(image.history) :
    LET entry == image.history[i] IN
    (entry.image_url \in CallIds /\ calls[entry.image_url].comp = "image")
      => /\ entry.prompt = calls[entry.image_url].request.prompt
         /\ entry.style = calls[entry.image_url].request.style

\* the piece between the first and the last character that is not white space
C16_Strip(s) ==
  LET solid == {i \in 1..Len(s) : s[i] \notin WhiteSpace}
  IN IF solid = {} THEN <<>>
     ELSE SubSeq(s, CHOOSE i \in solid : \A j \in solid : i <= j,
                    CHOOSE i \in solid : \A j \in solid : i >= j)
\* one left-to-right scan: a comma closes the current piece, and a closed
\* piece is kept, stripped, when anything is left of it
C16_Close(acc, cur) ==
  IF C16_Strip(cur) = <<>> THEN acc ELSE Append(acc, C16_Strip(cur))
RECURSIVE C16_Scan(_, _, _)
C16_Scan(s, cur, acc) ==
  IF s = <<>> THEN C16_Close(acc, cur)
  ELSE IF Head(s) = "," THEN C16_Scan(Tail(s), <<>>, C16_Close(acc, cur))
  ELSE C16_Scan(Tail(s), Append(cur, Head(s)), acc)
C16_Expected(input) == C16_Scan(input, <<>>, <<>>)
C16_Clean(skills) ==
  \A i \in 1..Len(skills) :
    /\ skills[i] # <<>>
    /\ Head(skills[i]) \notin WhiteSpace
    /\ skills[i][Len(skills[i])] \notin WhiteSpace
    /\ \A j \in 1..Len(skills[i]) : skills[i][j] # ","

\* C16: the skills list stored by generateResume() and by onGenerate(), and
\* the list sent in the request, is the input split on ',', each piece
\* trimmed, empty pieces dropped, in the original order; no skill is empty
\* or begins or ends with white space; and both components compute the same
\* list from the same input.
C16_SkillsParsed ==
  /\ [](/\ resume.skills = C16_Expected(resume.skillsInput)
        /\ C16_Clean(resume.skills)
        /\ parseSkills(resume.skillsInput)
             = onGenerateSkills(resume.skillsInput))
  /\ [][(Len(calls') > Len(calls) /\ calls'[Len(calls')].comp = "resume")
          => calls'[Len(calls')].request.skills = resume'.skills]_vars

\* C16 witness: a request went out with the skills "a" and "b" parsed from
\* "a, b", and the form then stored three skills parsed from an input with
\* tabs, blanks and an empty piece
C16_Witness ==
  /\ \E c \in CallIds : calls[c].request.skills = <<<<"a">>, <<"b">>>>
  /\ resume.skillsInput =
       <<"\t", "a", "\t", ",", ",", "b", " ", ",", "c", "\t">>
  /\ resume.skills = <<<<"a">>, <<"b">>, <<"c">>>>

\* list after is list before without its entry at the 0-based position index
C17_Without(before, after, index) ==
  /\ Len(after) = Len(before) - 1
  /\ \A j \in 1..Len(after) :
       after[j] = IF j <= index THEN before[j] ELSE before[j + 1]
\* what a guarded remove must do to a list: nothing to a list of one entry,
\* and exactly the named entry of a longer list
C17_Removed(before, after, index) ==
  /\ Len(before) = 1 => after = before
  /\ (Len(before) > 1 /\ index \in 0..(Len(before) - 1))
        => C17_Without(before, after, index)
  /\ Len(after) >= 1
C17_Lengths(experience) ==
  [e \in 1..Len(experience) |-> Len(experience[e].responsibilities)]
\* only the list that was meant may differ after a step
C17_OnlyExperience == resume' = [resume EXCEPT !.experience = resume.experience']
C17_OnlyEducation == resume' = [resume EXCEPT !.education = resume.education']

C18_InFlight(r) == handed[r].subscriptions = 0 \/ handed[r].live > 0

\* C18 (as claimed): activeRequests is the number of intercepted requests in
\* flight: never negative, and 0 when none is outstanding, also when the
\* returned observable is subscribed more than once.
C18_CountsInFlight ==
  /\ activeRequests >= 0
  /\ activeRequests = Cardinality({r \in 1..Len(handed) : C18_InFlight(r)})

\* C19: when a request fails at the interceptor, the step that enqueues its
\* one notification also stores the inline error of the component, and the
\* two strings are the same: handleError hands the interceptor's message on
\* unchanged.
C19_InlineEqualsNotification ==
  [][ \A c \in CallIds :
        C2_FailsNow(c) =>
          LET n == Len(notifications') IN
          /\ n = Len(notifications) + 1
          /\ calls'[c].notified = 1
          /\ C14_View(calls[c].comp)'.error = notifications'[n].message
          /\ calls'[c].surfaced = notifications'[n].message
          /\ handleError(Undefined, notifications'[n].message)
               = notifications'[n].message ]_vars

\* C19 witness: a request failed on the client side, and the inline error
\* and the newest notification both read "Client Error: net down"
C19_Witness ==
  \E c \in CallIds :
    /\ calls[c].outcome = "error" /\ calls[c].clientSide
    /\ calls[c].notified = 1
    /\ notifications # <<>>
    /\ notifications[Len(notifications)].message = "Client Error: net down"
    /\ ats.error = "Client Error: net down"

\* C20: loading never stays true for ever: whenever a component's loading
\* flag is true, it is false again later (the response, the error after the
\* retry or, at the latest, the timeout deadline ends the call).
C20_LoadingEnds ==
  /\ ats.loading ~> ~ats.loading
  /\ resume.loading ~> ~resume.loading
  /\ image.loading ~> ~image.loading

\* C20 witness: a submission set loading, its call was ended by the 300 s
\* deadline of the image service, and loading is false again
C20_Witness ==
  \E c \in CallIds :
    /\ calls[c].comp = "image" /\ calls[c].timeoutMs = ImageTimeout
    /\ calls[c].outcome = "timeout"
    /\ ~image.loading

\* C21 (as claimed): the identifiers in the queue are pairwise distinct, so
\* a dismiss or a timer callback takes at most one entry out of the queue,
\* and never an entry with another identifier than the one it was given.
C21_RemovesOnlyItsOwn ==
  /\ [](\A i, j \in 1..Len(notifications) :
          i # j => notifications[i].id # notifications[j].id)
  /\ [][\A id \in IdSpace :
          (Dismiss(id) \/ TimerFire(id))
             => /\ Len(notifications') >= Len(notifications) - 1
                /\ \A i \in 1..Len(notifications) :
                     notifications[i].id # id
                       => \E j \in 1..Len(notifications') :
                            notifications'[j] = notifications[i]]_vars

\* C22 (as claimed): every resume request that generateResume() sends has
\* its required fields filled in the payload; in particular its skills list
\* is not empty, whatever skills input passed isFormValid.
C22_SentSkillsNonEmpty ==
  \A c \in CallIds :
    calls[c].comp = "resume"
      => /\ calls[c].request.name # ""
         /\ calls[c].request.skills # <<>>

====
